---- MODULE Spec2Model ----
(***************************************************************************)
(* A model of the Go package perl_version: the lax and strict grammars of  *)
(* patterns.go, the reconstruction of a Version from the captured          *)
(* fragments, Parse's choice between the two grammars, the comparator and  *)
(* the formatter.                                                          *)
(*                                                                         *)
(* A Go string is a sequence of one-character strings: "v1.2" is           *)
(* <<"v", "1", ".", "2">>.  A []int64 is a sequence of integers; a nil      *)
(* slice and an empty one are both << >> (the code reads only their len).   *)
(* Digit runs are short, so no component leaves the int64 range.           *)
(***************************************************************************)
EXTENDS Integers, Sequences, FiniteSets, TLC

VARIABLES
    pc,       \* the step the calling code has reached
    input,    \* Parse: the argument `version`
    ver,      \* Parse: the Version returned
    err,      \* Parse: the error returned
    normal,   \* the text returned by ver.Normal()
    ver2,     \* the Version returned by Parse(normal)
    err2,     \* the error returned by Parse(normal)
    fracIn,   \* getFractionValue: the argument s
    fracOut,  \* getFractionValue: the slice returned
    vs,       \* comparator: the Versions a, b and c being compared
    rel,      \* the results of the methods called so far
    cand,     \* CompatibleWith: the argument candidate
    targ,     \* CompatibleWith: the argument target
    pair,     \* parseMulti: the two Versions and the error returned
    compat,   \* CompatibleWith: the boolean returned, or that it panicked
    value,    \* the Version the methods are called on
    made,     \* how value was made: the constructor and its argument
    bytes,    \* the []byte returned by value.MarshalJSON()
    dec       \* a new Version after UnmarshalJSON(bytes), and the error

vars == <<pc, input, ver, err, normal, ver2, err2, fracIn, fracOut,
          vs, rel, cand, targ, pair, compat, value, made, bytes, dec>>

(***************************************************************************)
(* Bounds of the model.                                                    *)
(***************************************************************************)
MaxLen == 4         \* every string over Alphabet up to this length is an input
MaxGroups == 3      \* dot-separated groups of a version-shaped input
MaxFracLen == 5     \* digits of an argument of getFractionValue
MaxComps == 2       \* components of a Version handed to the comparator
MaxPairGroups == 2  \* dot-separated groups of an argument of CompatibleWith

(***************************************************************************)
(* Strings.                                                                *)
(***************************************************************************)
Digits == {"0", "1", "2", "3", "4", "5", "6", "7", "8", "9"}

DigitVal(c) ==
    CASE c = "0" -> 0 [] c = "1" -> 1 [] c = "2" -> 2 [] c = "3" -> 3
      [] c = "4" -> 4 [] c = "5" -> 5 [] c = "6" -> 6 [] c = "7" -> 7
      [] c = "8" -> 8 [] c = "9" -> 9

DigitChar(d) ==
    CASE d = 0 -> "0" [] d = 1 -> "1" [] d = 2 -> "2" [] d = 3 -> "3"
      [] d = 4 -> "4" [] d = 5 -> "5" [] d = 6 -> "6" [] d = 7 -> "7"
      [] d = 8 -> "8" [] d = 9 -> "9"

\* F(e), with e evaluated once however often F uses its argument: a local
\* variable of the code, assigned once and read many times
With(e, F(_)) == CHOOSE y \in {F(x) : x \in {e}} : TRUE

\* s[i:] of Go, with i counted from 1
Suffix(s, i) == SubSeq(s, i, Len(s))

\* strings.TrimPrefix(s, p) for a one-character p
TrimPrefix(s, p) == IF Len(s) >= 1 /\ s[1] = p THEN Tail(s) ELSE s

RECURSIVE Atoi(_)
\* strconv.Atoi on a non-empty run of digits (leading zeros allowed)
Atoi(s) ==
    IF s = << >> THEN 0
    ELSE 10 * Atoi(SubSeq(s, 1, Len(s) - 1)) + DigitVal(s[Len(s)])

\* what stands for a panic where an integer is expected: no digit run
\* denotes a negative number
Panic == 0 - 1

\* mustParseInt64: panics when s is no integer
mustParseInt64(s) ==
    IF s # << >> /\ \A i \in 1..Len(s) : s[i] \in Digits
    THEN Atoi(s)
    ELSE Panic

RECURSIVE FormatInt(_)
\* fmt.Sprintf("%d", n) and strconv.FormatInt(n, 10)
FormatInt(n) ==
    IF n < 0 THEN <<"-">> \o FormatInt(0 - n)
    ELSE IF n < 10 THEN <<DigitChar(n)>>
    ELSE Append(FormatInt(n \div 10), DigitChar(n % 10))

RECURSIVE SplitDots(_)
\* strings.Split(s, "."): the pieces of s between its dots, empty ones kept
SplitDots(s) ==
    IF \A i \in 1..Len(s) : s[i] # "." THEN <<s>>
    ELSE With(CHOOSE i \in 1..Len(s) :
                  s[i] = "." /\ \A j \in 1..(i - 1) : s[j] # ".",
              LAMBDA k :
                  With(Suffix(s, k + 1),
                       LAMBDA rest : <<SubSeq(s, 1, k - 1)>> \o SplitDots(rest)))

min(a, b) == IF a < b THEN a ELSE b

\* dottedToMinors: the dot-separated groups of s, each parsed as an integer
dottedToMinors(s) ==
    With(SplitDots(TrimPrefix(s, ".")),
         LAMBDA raw : [i \in 1..Len(raw) |-> mustParseInt64(raw[i])])

(***************************************************************************)
(* getFractionValue (util.go).  FractionLoop is the loop over the bytes of *)
(* s (i counts from 0 as in the code); slot k of the Go slice stringValues *)
(* is stringValues[k + 1] here.  An argument of "." leaves stringValues    *)
(* empty and the store into its last slot panics.                          *)
(***************************************************************************)
RECURSIVE PadLeft(_)
\* PadRight with the "0" put in front of currentString
PadLeft(currentString) ==
    IF Len(currentString) < 3
    THEN PadLeft(<<"0">> \o currentString)
    ELSE currentString

RECURSIVE PadRight(_)
\* the padding loop: "0" is appended until currentString is three wide
PadRight(currentString) ==
    IF Len(currentString) < 3
    THEN PadRight(Append(currentString, "0"))
    ELSE currentString

RECURSIVE FractionLoop(_, _, _, _)
FractionLoop(s, i, stringValues, currentString) ==
    IF i >= Len(s)
    THEN [stringValues |-> stringValues, currentString |-> currentString]
    ELSE
      With(IF i % 3 = 0 /\ i # 0
           THEN [stringValues |->
                     [stringValues EXCEPT ![(i \div 3 - 1) + 1] = currentString],
                 currentString |-> << >>]
           ELSE [stringValues |-> stringValues,
                 currentString |-> currentString],
           LAMBDA l :
               With(i + 1, LAMBDA next :
                   FractionLoop(s, next, l.stringValues,
                                Append(l.currentString, s[i + 1]))))

\* getFractionValue after the TrimPrefix
FractionValues(s) ==
    LET expectedValues ==
            IF Len(s) % 3 = 0 THEN (Len(s) \div 3) + 1 - 1
            ELSE (Len(s) \div 3) + 1
    IN  IF expectedValues = 0 THEN <<Panic>>
        ELSE
          With(FractionLoop(s, 0, [k \in 1..expectedValues |-> << >>], << >>),
               LAMBDA loop :
                   With([loop.stringValues EXCEPT
                            ![expectedValues] = PadRight(loop.currentString)],
                        LAMBDA stringValues :
                            [k \in 1..expectedValues |->
                                mustParseInt64(stringValues[k])]))

getFractionValue(s) ==
    IF s = << >> THEN << >>
    ELSE With(TrimPrefix(s, "."), LAMBDA trimmed : FractionValues(trimmed))

(***************************************************************************)
(* The grammars (patterns.go).  Both regular expressions end in $ and have *)
(* no ^, so a match is a suffix of the text, and FindStringSubmatch        *)
(* returns the leftmost one: the longest suffix the grammar matches in     *)
(* full.  Every element of a form is followed by ".", "_" or the end, so   *)
(* a digit run in a full match is a maximal one and the captures of a      *)
(* matched suffix are unique.  A group that takes no part in the match is  *)
(* the empty string, as in Go.                                             *)
(***************************************************************************)
RECURSIVE DigitRun(_, _)
\* the length of the run of [0-9] that starts at t[i]
DigitRun(t, i) ==
    IF i <= Len(t) /\ t[i] \in Digits THEN 1 + DigitRun(t, i + 1) ELSE 0

RECURSIVE DottedRun(_, _)
\* (?:\.[0-9]+)* from t[i]: where it ends, how many groups it has and the
\* widest group
DottedRun(t, i) ==
    IF i <= Len(t) /\ t[i] = "." /\ DigitRun(t, i + 1) >= 1
    THEN With(DigitRun(t, i + 1), LAMBDA w :
         With(DottedRun(t, i + 1 + w), LAMBDA rest :
              [end |-> rest.end, n |-> rest.n + 1,
               maxw |-> IF w > rest.maxw THEN w ELSE rest.maxw]))
    ELSE [end |-> i, n |-> 0, maxw |-> 0]

\* laxAlphaR?: (_[0-9]+)? from t[q]: where it ends
AlphaEnd(t, q) ==
    IF q <= Len(t) /\ t[q] = "_" /\ DigitRun(t, q + 1) >= 1
    THEN q + 1 + DigitRun(t, q + 1)
    ELSE q

\* a nil []string: no match
nil == << >>

NoGroups(n) == [k \in 0..n |-> << >>]

\* laxUndefR
LaxUndef(t) ==
    IF t = <<"u", "n", "d", "e", "f">>
    THEN [NoGroups(14) EXCEPT ![0] = t, ![1] = t]
    ELSE nil

\* laxDottedFormR, first alternative: v laxIntR (?: laxDottedPR laxAlphaR? )?
LaxDottedA(t) ==
    With(DigitRun(t, 2), LAMBDA r :
    With(DottedRun(t, 2 + r), LAMBDA g :
    LET p == 2 + r
        q == AlphaEnd(t, g.end)
    IN  IF Len(t) >= 1 /\ t[1] = "v" /\ r >= 1
           /\ (p = Len(t) + 1 \/ (g.n >= 1 /\ q = Len(t) + 1))
        THEN [NoGroups(14) EXCEPT ![0] = t, ![2] = t,
                                  ![3] = SubSeq(t, 2, p - 1),
                                  ![4] = SubSeq(t, p, g.end - 1),
                                  ![5] = SubSeq(t, g.end, Len(t))]
        ELSE nil))

\* laxDottedFormR, second alternative: laxIntR? laxDotted2PR laxAlphaR?
LaxDottedB(t) ==
    With(DigitRun(t, 1), LAMBDA r :
    With(DottedRun(t, 1 + r), LAMBDA g :
    LET p == 1 + r
        q == AlphaEnd(t, g.end)
    IN  IF g.n >= 2 /\ q = Len(t) + 1
        THEN [NoGroups(14) EXCEPT ![0] = t, ![2] = t,
                                  ![6] = SubSeq(t, 1, r),
                                  ![7] = SubSeq(t, p, g.end - 1),
                                  ![8] = SubSeq(t, g.end, Len(t))]
        ELSE nil))

\* laxDecimalFormR, first alternative: laxIntR (?: fractionR | \. )? laxAlphaR?
LaxDecimalA(t) ==
    With(DigitRun(t, 1), LAMBDA r :
    With(IF 1 + r <= Len(t) /\ t[1 + r] = "."
         THEN DigitRun(t, 2 + r) ELSE 0, LAMBDA f :
    LET p == 1 + r
        dot == p <= Len(t) /\ t[p] = "."
        e == IF dot THEN p + 1 + f ELSE p
        q == AlphaEnd(t, e)
    IN  IF r >= 1 /\ q = Len(t) + 1
        THEN [NoGroups(14) EXCEPT ![0] = t, ![9] = t,
                                  ![10] = SubSeq(t, 1, r),
                                  ![11] = IF f >= 1 THEN SubSeq(t, p, e - 1)
                                          ELSE << >>,
                                  ![12] = SubSeq(t, e, Len(t))]
        ELSE nil))

\* laxDecimalFormR, second alternative: fractionR laxAlphaR?
LaxDecimalB(t) ==
    With(DigitRun(t, 2), LAMBDA f :
    LET e == 2 + f
        q == AlphaEnd(t, e)
    IN  IF Len(t) >= 1 /\ t[1] = "." /\ f >= 1 /\ q = Len(t) + 1
        THEN [NoGroups(14) EXCEPT ![0] = t, ![9] = t,
                                  ![13] = SubSeq(t, 1, e - 1),
                                  ![14] = SubSeq(t, e, Len(t))]
        ELSE nil)

\* LaxVersionRegex matched against the whole of t: the submatches, or nil
LaxVersionRegex(t) ==
    With(<<LaxUndef(t), LaxDottedA(t), LaxDottedB(t), LaxDecimalA(t),
           LaxDecimalB(t)>>,
         LAMBDA alt :
             IF \A k \in 1..5 : alt[k] = nil THEN nil
             ELSE alt[CHOOSE k \in 1..5 :
                          alt[k] # nil /\ \A j \in 1..(k - 1) : alt[j] = nil])

\* strictIntR from t[i]: the length of the integer, 0 when there is none
StrictInt(t, i) ==
    With(DigitRun(t, i), LAMBDA r :
         IF r >= 1 /\ (t[i] # "0" \/ r = 1) THEN r ELSE 0)

\* strictDecimalFormR: strictIntR fractionR?
StrictDecimal(t) ==
    With(StrictInt(t, 1), LAMBDA r :
    With(IF 1 + r <= Len(t) /\ t[1 + r] = "."
         THEN DigitRun(t, 2 + r) ELSE 0, LAMBDA f :
    LET p == 1 + r
    IN  IF r >= 1 /\ (p = Len(t) + 1 \/ (f >= 1 /\ p + 1 + f = Len(t) + 1))
        THEN [NoGroups(6) EXCEPT ![0] = t, ![1] = t,
                                 ![2] = SubSeq(t, 1, r),
                                 ![3] = SubSeq(t, p, Len(t))]
        ELSE nil))

\* strictDottedFormR: v strictIntR strictDotted2PR
StrictDotted(t) ==
    With(StrictInt(t, 2), LAMBDA r :
    With(DottedRun(t, 2 + r), LAMBDA g :
    LET p == 2 + r
    IN  IF Len(t) >= 1 /\ t[1] = "v" /\ r >= 1
           /\ g.n >= 2 /\ g.maxw <= 3 /\ g.end = Len(t) + 1
        THEN [NoGroups(6) EXCEPT ![0] = t, ![4] = t,
                                 ![5] = SubSeq(t, 2, p - 1),
                                 ![6] = SubSeq(t, p, Len(t))]
        ELSE nil))

\* StrictVersionRegex matched against the whole of t: the submatches, or nil
StrictVersionRegex(t) ==
    With(StrictDecimal(t), LAMBDA decimal :
         IF decimal # nil THEN decimal ELSE StrictDotted(t))

\* laxRegexp.FindStringSubmatch(s): the submatches of the leftmost match
laxFind(s) ==
    With([i \in 1..Len(s) |-> LaxVersionRegex(Suffix(s, i))],
         LAMBDA at :
             IF \A i \in 1..Len(s) : at[i] = nil THEN nil
             ELSE at[CHOOSE i \in 1..Len(s) :
                         at[i] # nil /\ \A j \in 1..(i - 1) : at[j] = nil])

\* strictRegexp.FindStringSubmatch(s): the submatches of the leftmost match
strictFind(s) ==
    With([i \in 1..Len(s) |-> StrictVersionRegex(Suffix(s, i))],
         LAMBDA at :
             IF \A i \in 1..Len(s) : at[i] = nil THEN nil
             ELSE at[CHOOSE i \in 1..Len(s) :
                         at[i] # nil /\ \A j \in 1..(i - 1) : at[j] = nil])

(***************************************************************************)
(* Version and the value reconstruction (the lax and the strict parser).   *)
(* What a function returns is a record [v, err]; err is NoError, one of    *)
(* the two errors of the package, or PanicFault when the call panics.      *)
(***************************************************************************)
NoError == "<nil>"
errAlphaWithoutDecimal == "invalid version format: alpha without decimal"
errInvalidVersion == "invalid version string"
PanicFault == "panic"

\* type Version struct
Version(original, alpha, qv, version) ==
    [original |-> original, alpha |-> alpha, qv |-> qv, version |-> version]

\* Version{}
ZeroVersion == Version(<< >>, FALSE, FALSE, << >>)

Ok(v) ==
    IF \E i \in 1..Len(v.version) : v.version[i] = Panic
    THEN [v |-> ZeroVersion, err |-> PanicFault]
    ELSE [v |-> v, err |-> NoError]

Fail(e) == [v |-> ZeroVersion, err |-> e]

\* make([]int64, n)
MakeSlice(n) == [i \in 1..n |-> 0]

\* values[0] = first; copy(values[1:], rest): copy stops at the shorter of
\* the two, so what of rest does not fit in values is left out
SetAndCopy(values, first, rest) ==
    [i \in 1..Len(values) |->
        IF i = 1 THEN first
        ELSE IF i - 1 <= Len(rest) THEN rest[i - 1]
        ELSE values[i]]

\* laxDotted.toPerlVersionA
laxDottedToPerlVersionA(d, original) ==
    LET isAlpha == d.alpha # << >>
        dotted == IF isAlpha THEN d.dottedGroup \o TrimPrefix(d.alpha, "_")
                  ELSE d.dottedGroup
    IN  With(IF dotted # << >> THEN dottedToMinors(dotted) ELSE << >>,
             LAMBDA minors :
                 LET numValues == IF Len(minors) < 3 THEN 3 ELSE Len(minors)
                     values == SetAndCopy(MakeSlice(numValues),
                                          mustParseInt64(d.integer), minors)
                 IN  Version(original, isAlpha, TRUE, values))

\* laxDottedToPerlVersionB with qv decided by the number of groups
laxDottedToPerlVersionBQvByGroups(d, original) ==
    LET isAlpha == d.secondAlpha # << >>
        dotted == IF isAlpha
                  THEN d.secondDottedGroup \o TrimPrefix(d.secondAlpha, "_")
                  ELSE d.secondDottedGroup
        first == IF d.secondInteger # << >>
                 THEN mustParseInt64(d.secondInteger)
                 ELSE 0
    IN  With(dottedToMinors(dotted),
             LAMBDA minors :
                 Version(original, isAlpha, Len(minors) = 3,
                         SetAndCopy(MakeSlice(Len(minors) + 1), first, minors)))

\* laxDottedToPerlVersionB with qv left false, as for a decimal
laxDottedToPerlVersionBNotQv(d, original) ==
    LET isAlpha == d.secondAlpha # << >>
        dotted == IF isAlpha
                  THEN d.secondDottedGroup \o TrimPrefix(d.secondAlpha, "_")
                  ELSE d.secondDottedGroup
        first == IF d.secondInteger # << >>
                 THEN mustParseInt64(d.secondInteger)
                 ELSE 0
    IN  With(dottedToMinors(dotted),
             LAMBDA minors :
                 Version(original, isAlpha, FALSE,
                         SetAndCopy(MakeSlice(Len(minors) + 1), first, minors)))

\* laxDotted.toPerlVersionB
laxDottedToPerlVersionB(d, original) ==
    LET isAlpha == d.secondAlpha # << >>
        dotted == IF isAlpha
                  THEN d.secondDottedGroup \o TrimPrefix(d.secondAlpha, "_")
                  ELSE d.secondDottedGroup
        impliedZero == d.secondDottedGroup[1] = "." /\ d.secondInteger = << >>
        first == IF d.secondInteger # << >>
                 THEN mustParseInt64(d.secondInteger)
                 ELSE 0
    IN  With(dottedToMinors(dotted),
             LAMBDA minors :
                 LET numValues == IF d.secondInteger # << >> \/ impliedZero
                                  THEN Len(minors) + 1
                                  ELSE Len(minors)
                     values == SetAndCopy(MakeSlice(numValues), first, minors)
                 IN  Version(original, d.secondAlpha # << >>,
                             numValues = 3, values))

\* laxDotted.toPerlVersion
laxDottedToPerlVersion(d, original) ==
    IF d.integer # << >> THEN Ok(laxDottedToPerlVersionA(d, original))
    ELSE IF d.secondDottedGroup # << >>
    THEN Ok(laxDottedToPerlVersionB(d, original))
    ELSE Fail(PanicFault)

\* laxDecimal.toPerlVersionA
laxDecimalToPerlVersionA(d, original) ==
    LET isAlpha == d.alpha # << >>
        fractionStr == IF isAlpha THEN d.fraction \o TrimPrefix(d.alpha, "_")
                       ELSE d.fraction
        impliedZeroEnd == original[Len(original)] = "." /\ d.fraction = << >>
    IN  IF isAlpha /\ d.fraction = << >>
        THEN Fail(errAlphaWithoutDecimal)
        ELSE
          With(getFractionValue(fractionStr),
               LAMBDA fractions :
                   With(SetAndCopy(MakeSlice(IF impliedZeroEnd
                                             THEN Len(fractions) + 2
                                             ELSE Len(fractions) + 1),
                                   mustParseInt64(d.integer), fractions),
                        LAMBDA values :
                            Ok(Version(original, d.alpha # << >>, FALSE,
                                       IF impliedZeroEnd
                                       THEN [values EXCEPT ![Len(values)] = 0]
                                       ELSE values))))

\* laxDecimal.toPerlVersionB
laxDecimalToPerlVersionB(d, original) ==
    LET isAlpha == d.secondAlpha # << >>
        fractionStr == IF isAlpha
                       THEN d.secondFraction \o TrimPrefix(d.secondAlpha, "_")
                       ELSE d.secondFraction
    IN  With(getFractionValue(fractionStr),
             LAMBDA fractions :
                 IF fractions = << >>
                 THEN Fail(PanicFault)
                 ELSE Ok(Version(original, d.secondAlpha # << >>, FALSE,
                                 SetAndCopy(MakeSlice(Len(fractions) + 1),
                                            0, fractions))))

\* laxDecimal.toPerlVersion choosing form A by the fraction
laxDecimalToPerlVersionByFraction(d, original) ==
    IF d.fraction # << >> THEN laxDecimalToPerlVersionA(d, original)
    ELSE IF d.secondFraction # << >>
    THEN laxDecimalToPerlVersionB(d, original)
    ELSE Fail(PanicFault)

\* laxDecimal.toPerlVersion
laxDecimalToPerlVersion(d, original) ==
    IF d.integer # << >> THEN laxDecimalToPerlVersionA(d, original)
    ELSE IF d.secondFraction # << >>
    THEN laxDecimalToPerlVersionB(d, original)
    ELSE Fail(PanicFault)

\* lax.toPerlVersion
laxToPerlVersion(d) ==
    IF d.undef # << >>
    THEN Ok(Version(d.original, FALSE, FALSE, <<0>>))
    ELSE IF d.dotted # << >>
    THEN laxDottedToPerlVersion(d.dottedMatches, d.original)
    ELSE IF d.decimal # << >>
    THEN laxDecimalToPerlVersion(d.decimalMatches, d.original)
    ELSE Fail(PanicFault)

\* laxVersion: the submatches are handed out to the fields of lax
laxVersion(matches) ==
    With(
        [original |-> matches[0],
         undef |-> matches[1],
         dotted |-> matches[2],
         dottedMatches |->
             [integer |-> matches[3],
              dottedGroup |-> matches[4],
              alpha |-> matches[5],
              secondInteger |-> matches[6],
              secondDottedGroup |-> matches[7],
              secondAlpha |-> matches[8]],
         decimal |-> matches[9],
         decimalMatches |->
             [integer |-> matches[10],
              fraction |-> matches[11],
              alpha |-> matches[12],
              secondFraction |-> matches[13],
              secondAlpha |-> matches[14]]],
        LAMBDA l : laxToPerlVersion(l))

\* strictDecimalForm.toPerlVersion
strictDecimalToPerlVersion(d, original) ==
    LET trimmed == TrimPrefix(d.fractionPart, ".")
    IN  With(getFractionValue(trimmed),
             LAMBDA fracValues :
                 Version(original, FALSE, FALSE,
                         SetAndCopy(MakeSlice(Len(fracValues) + 1),
                                    mustParseInt64(d.integerPart),
                                    fracValues)))

\* strictDottedForm.toPerlVersion
strictDottedToPerlVersion(d, original) ==
    LET trimmed == TrimPrefix(d.dottedGroup, ".")
    IN  With(SplitDots(trimmed),
             LAMBDA minors :
                 Version(original, FALSE, TRUE,
                         [i \in 1..(Len(minors) + 1) |->
                             IF i = 1 THEN mustParseInt64(d.integerPart)
                             ELSE mustParseInt64(minors[i - 1])]))

\* strict.toPerlVersion
strictToPerlVersion(d) ==
    IF d.decimal # << >>
    THEN Ok(strictDecimalToPerlVersion(d.decimalMatches, d.original))
    ELSE IF d.dotted # << >>
    THEN Ok(strictDottedToPerlVersion(d.dottedMatches, d.original))
    ELSE Fail(PanicFault)

\* strictVersion: the submatches are handed out to the fields of strict
strictVersion(matches) ==
    With(
        [original |-> matches[0],
         decimal |-> matches[1],
         decimalMatches |->
             [integerPart |-> matches[2], fractionPart |-> matches[3]],
         dotted |-> matches[4],
         dottedMatches |->
             [integerPart |-> matches[5], dottedGroup |-> matches[6]]],
        LAMBDA s : strictToPerlVersion(s))

(***************************************************************************)
(* Parse (perl_version.go).                                                *)
(***************************************************************************)
\* Parse with the error of the lax parser returned in every branch
ParseLaxErrorReturned(version) ==
    With(laxFind(version), LAMBDA laxMatch :
    With(strictFind(version), LAMBDA strictMatch :
        IF laxMatch # nil /\ strictMatch = nil
        THEN laxVersion(laxMatch)
        ELSE IF laxMatch # nil /\ Len(laxMatch[0]) > Len(strictMatch[0])
        THEN laxVersion(laxMatch)
        ELSE IF strictMatch # nil
        THEN strictVersion(strictMatch)
        ELSE Fail(errInvalidVersion)))

Parse(version) ==
    With(laxFind(version), LAMBDA laxMatch :
    With(strictFind(version), LAMBDA strictMatch :
        IF laxMatch # nil /\ strictMatch = nil
        THEN laxVersion(laxMatch)
        ELSE IF laxMatch # nil /\ Len(laxMatch[0]) > Len(strictMatch[0])
        THEN With(laxVersion(laxMatch), LAMBDA lax :
                 \* err == nil, or a panic on its way up
                 IF lax.err # errAlphaWithoutDecimal THEN lax
                 ELSE strictVersion(strictMatch))
        ELSE IF strictMatch # nil
        THEN strictVersion(strictMatch)
        ELSE Fail(errInvalidVersion)))

\* IsValid
IsValid(version) == Parse(version).err = NoError

\* Undef
Undef == Version(<<"u", "n", "d", "e", "f">>, FALSE, FALSE, <<0>>)

(***************************************************************************)
(* The accessors.                                                          *)
(***************************************************************************)
\* Version.IsAlpha
IsAlpha(v) == v.alpha

\* Version.IsQv
IsQv(v) == v.qv

\* Version.Raw
Raw(v) == v.original

\* Stringify without the case of the undefined Version
StringifyAsRaw(v) == v.original

\* Version.Stringify
Stringify(v) ==
    IF v.original = <<"u", "n", "d", "e", "f">> THEN <<"0">> ELSE v.original

(***************************************************************************)
(* The formatter: Normal.                                                  *)
(***************************************************************************)
RECURSIVE Flatten(_)
\* the concatenation of a sequence of strings
Flatten(ss) == IF ss = << >> THEN << >> ELSE ss[1] \o Flatten(Tail(ss))

RECURSIVE Join(_, _)
\* strings.Join(elems, sep) for a one-character sep
Join(elems, sep) ==
    IF elems = << >> THEN << >>
    ELSE IF Len(elems) = 1 THEN elems[1]
    ELSE elems[1] \o <<sep>> \o Join(Tail(elems), sep)

\* Fixed with the components copied to the end of fixed
FixedAtEnd(version, num) ==
    [i \in 1..num |->
        IF i > num - Len(version) THEN version[i - (num - Len(version))]
        ELSE 0]

\* fixed := make([]int64, num); copy(fixed, v.version)
Fixed(version, num) ==
    [i \in 1..num |-> IF i <= Len(version) THEN version[i] ELSE 0]

\* Normal with three entries whatever the number of components
NormalThreeEntries(v) ==
    With(Fixed(SubSeq(v.version, 1, min(3, Len(v.version))), 3),
         LAMBDA fixed :
             <<"v">> \o Join([i \in 1..3 |-> FormatInt(fixed[i])], "."))

\* Version.Normal
Normal(v) ==
    LET num == IF Len(v.version) < 3 THEN 3 ELSE Len(v.version)
    IN  With(Fixed(v.version, num), LAMBDA fixed :
        With([i \in 1..num |-> FormatInt(fixed[i])], LAMBDA asStrings :
             <<"v">> \o Join(asStrings, ".")))

\* a float64 is modelled by the decimal number it is nearest to, written
\* without the zeros that end its fraction: with no more than 15
\* significant digits, which is all the model makes, two such numbers are
\* the same float64 iff they are the same number.
\* strconv.ParseFloat(str, 64) of the texts Numify makes of "%d.%s":
\* 0 (with an error Numify drops) when a '-' is among the fraction's
\* characters
ParseFloat(str) ==
    LET RECURSIVE TrimZeros(_)
        TrimZeros(t) ==
            IF t # << >> /\ t[Len(t)] = "0"
            THEN TrimZeros(SubSeq(t, 1, Len(t) - 1))
            ELSE t
        neg == str[1] = "-"
        parts == SplitDots(IF neg THEN Tail(str) ELSE str)
    IN  IF \A i \in 1..Len(parts[2]) : parts[2][i] \in Digits
        THEN [neg |-> neg, whole |-> Atoi(parts[1]),
              frac |-> TrimZeros(parts[2])]
        ELSE [neg |-> FALSE, whole |-> 0, frac |-> << >>]

\* Numify with fields two wide
NumifyWidthTwo(v) ==
    IF Len(v.version) = 1
    THEN [panicked |-> FALSE,
          f |-> [neg |-> v.version[1] < 0,
                 whole |-> IF v.version[1] < 0 THEN 0 - v.version[1]
                           ELSE v.version[1],
                 frac |-> << >>]]
    ELSE IF Len(v.version) = 0
    THEN [panicked |-> TRUE,
          f |-> [neg |-> FALSE, whole |-> 0, frac |-> << >>]]
    ELSE
      LET pad(t) == IF Len(t) = 1 THEN <<"0">> \o t ELSE t
      IN  With([i \in 1..(Len(v.version) - 1) |->
                    pad(FormatInt(v.version[i + 1]))],
               LAMBDA asStrings :
          With(Flatten(asStrings), LAMBDA tail :
              [panicked |-> FALSE,
               f |-> ParseFloat(FormatInt(v.version[1]) \o <<".">> \o tail)]))

\* Version.Numify: the float64 it returns, or that it panicked, which
\* make does for the length -1 when there is no component.  pad is the
\* padding loop, which a text of one character runs twice.
Numify(v) ==
    IF Len(v.version) = 1
    THEN [panicked |-> FALSE,
          f |-> [neg |-> v.version[1] < 0,
                 whole |-> IF v.version[1] < 0 THEN 0 - v.version[1]
                           ELSE v.version[1],
                 frac |-> << >>]]
    ELSE IF Len(v.version) = 0
    THEN [panicked |-> TRUE,
          f |-> [neg |-> FALSE, whole |-> 0, frac |-> << >>]]
    ELSE
      LET pad(t) == IF Len(t) = 1 THEN <<"0", "0">> \o t
                    ELSE IF Len(t) = 2 THEN <<"0">> \o t
                    ELSE t
      IN  With([i \in 1..(Len(v.version) - 1) |->
                    pad(FormatInt(v.version[i + 1]))],
               LAMBDA asStrings :
          With(Flatten(asStrings), LAMBDA tail :
              [panicked |-> FALSE,
               f |-> ParseFloat(FormatInt(v.version[1]) \o <<".">> \o tail)]))

(***************************************************************************)
(* The comparator.  LessThanLoop and GreaterThanLoop are the two for       *)
(* loops, i counting from 0 as in the code.                                *)
(***************************************************************************)
RECURSIVE LessThanLoop(_, _, _, _)
LessThanLoop(a, b, i, length) ==
    IF i >= length THEN FALSE
    ELSE IF a[i + 1] < b[i + 1] THEN TRUE
    ELSE IF a[i + 1] > b[i + 1] THEN FALSE
    ELSE LessThanLoop(a, b, i + 1, length)

\* LessThan with a proper prefix counted as older
LessThanByLength(v, other) ==
    \/ LessThanLoop(v.version, other.version, 0,
                    min(Len(v.version), Len(other.version)))
    \/ /\ ~LessThanLoop(other.version, v.version, 0,
                         min(Len(v.version), Len(other.version)))
       /\ Len(v.version) < Len(other.version)

\* LessThan with <= in the first comparison of the loop
LessThanOrSame(v, other) ==
    /\ min(Len(v.version), Len(other.version)) > 0
    /\ v.version[1] <= other.version[1]

\* Version.LessThan
LessThan(v, other) ==
    LessThanLoop(v.version, other.version, 0,
                 min(Len(v.version), Len(other.version)))

RECURSIVE GreaterThanLoopNoReturn(_, _, _, _)
\* GreaterThanLoop without the return on a smaller component
GreaterThanLoopNoReturn(a, b, i, length) ==
    IF i >= length THEN FALSE
    ELSE IF a[i + 1] > b[i + 1] THEN TRUE
    ELSE GreaterThanLoopNoReturn(a, b, i + 1, length)

RECURSIVE GreaterThanLoop(_, _, _, _)
GreaterThanLoop(a, b, i, length) ==
    IF i >= length THEN FALSE
    ELSE IF a[i + 1] > b[i + 1] THEN TRUE
    ELSE IF a[i + 1] < b[i + 1] THEN FALSE
    ELSE GreaterThanLoop(a, b, i + 1, length)

\* Version.GreaterThan
GreaterThan(v, other) ==
    GreaterThanLoop(v.version, other.version, 0,
                    min(Len(v.version), Len(other.version)))

\* Equal as identity of the component sequences
EqualExact(v, other) == v.version = other.version

\* Version.Equal
Equal(v, other) == ~(LessThan(v, other) \/ GreaterThan(v, other))

\* Version.LessThanOrEqual
LessThanOrEqual(v, other) == Equal(v, other) \/ LessThan(v, other)

\* Version.GreaterThanOrEqual
GreaterThanOrEqual(v, other) == Equal(v, other) \/ GreaterThan(v, other)

\* Version.NotEqual
NotEqual(v, other) == ~Equal(v, other)

\* Version.Compare
Compare(v, other) ==
    IF LessThan(v, other) THEN 0 - 1
    ELSE IF GreaterThan(v, other) THEN 1
    ELSE 0

\* parseMulti
parseMulti(a, b) ==
    With(Parse(a), LAMBDA aPv :
        IF aPv.err # NoError
        THEN [a |-> ZeroVersion, b |-> ZeroVersion, err |-> aPv.err]
        ELSE With(Parse(b), LAMBDA bPv :
                 IF bPv.err # NoError
                 THEN [a |-> ZeroVersion, b |-> ZeroVersion, err |-> bPv.err]
                 ELSE [a |-> aPv.v, b |-> bPv.v, err |-> NoError]))

\* CompatibleWith with GreaterThan in the place of GreaterThanOrEqual
CompatibleWithGreaterThan(candidate, target) ==
    With(parseMulti(candidate, target), LAMBDA r :
        IF r.err # NoError
        THEN [panicked |-> TRUE, result |-> FALSE]
        ELSE [panicked |-> FALSE, result |-> GreaterThan(r.a, r.b)])

\* CompatibleWith: what it returns, or that it panicked
CompatibleWith(candidate, target) ==
    With(parseMulti(candidate, target), LAMBDA r :
        IF r.err # NoError
        THEN [panicked |-> TRUE, result |-> FALSE]
        ELSE [panicked |-> FALSE, result |-> GreaterThanOrEqual(r.a, r.b)])

(***************************************************************************)
(* The inputs.                                                             *)
(***************************************************************************)
\* every sequence over S of length at most n
SeqsUpTo(S, n) == UNION {[1..k -> S] : k \in 0..n}

Alphabet == {"v", ".", "_", "0", "1", "x"}

\* the pieces of a version-shaped text
Leads == {<< >>, <<"x">>}
Vs == {<< >>, <<"v">>}
Ints == {<< >>, <<"0">>, <<"1">>, <<"0", "1">>}
Groups == {<<".", "0">>, <<".", "2">>, <<".", "0", "2">>,
           <<".", "1", "2", "3", "4">>}
Alphas == {<< >>, <<"_", "0", "3">>}
Ends == {<< >>, <<".">>}

ShapedInputs ==
    {l \o v \o n \o Flatten(g) \o a \o e :
        l \in Leads, v \in Vs, n \in Ints, g \in SeqsUpTo(Groups, MaxGroups),
        a \in Alphas, e \in Ends}

UndefText == <<"u", "n", "d", "e", "f">>

UndefInputs ==
    {l \o UndefText \o e :
        l \in {<< >>, <<"x">>, <<"1">>, <<"v", "1", ".">>},
        e \in {<< >>, <<".">>, <<"1">>}}

\* the arguments Parse is called with: the last four are texts the
\* documentation and the tests of the package name
Inputs ==
    SeqsUpTo(Alphabet, MaxLen) \cup ShapedInputs \cup UndefInputs
        \cup {<<"1", ".", "2", ".", "3">>, <<"v", "1", ".", "2", ".", "3">>,
               <<"1", ".", "2", "_", "3">>,
               <<"v", "1", ".", "2", ".", "3", ".", "4">>}

\* the arguments getFractionValue is called with: digit strings, and the
\* same with the "." the lax decimal form leaves in front
FracDigits == {"0", "2", "3", "9"}
FracInputs ==
    SeqsUpTo(FracDigits, MaxFracLen)
        \cup {<<".">> \o s : s \in SeqsUpTo(FracDigits, MaxFracLen) \ {<< >>}}

\* the Versions handed to the comparator
CompValues == {1, 2, 5}
CompVersions ==
    {Version(<< >>, FALSE, FALSE, s) : s \in SeqsUpTo(CompValues, MaxComps)}
Names == {"a", "b", "c"}

\* the arguments CompatibleWith and parseMulti are called with
PairGroups == {<<".", "3", "4">>, <<".", "0">>, <<".", "1">>}
PairInputs ==
    {v \o <<"5">> \o Flatten(g) \o e :
        v \in Vs, g \in SeqsUpTo(PairGroups, MaxPairGroups),
        e \in {<< >>, <<"_">>}}

(***************************************************************************)
(* The record codec: MarshalJSON and UnmarshalJSON (perl_version.go), with *)
(* json.Marshal and json.Unmarshal of the standard library on the          *)
(* anonymous struct {Original, Alpha, Qv, Version}.  A []byte is a         *)
(* sequence of characters like a string.  The documents of the model hold  *)
(* strings, booleans, null, integers and arrays of integers, without white *)
(* space, and spell the keys as MarshalJSON does.                          *)
(***************************************************************************)
\* the keys of the struct tags
JsonKeys ==
    [original |-> <<"o", "r", "i", "g", "i", "n", "a", "l">>,
     alpha |-> <<"a", "l", "p", "h", "a">>,
     qv |-> <<"q", "v">>,
     version |-> <<"v", "e", "r", "s", "i", "o", "n">>]

Null == <<"n", "u", "l", "l">>

\* encodeState.string: one character of a string, escaped where JSON or
\* the HTML escaping of json.Marshal asks for it
EscapeChar(c) ==
    CASE c = "\"" -> <<"\\", "\"">>
      [] c = "\\" -> <<"\\", "\\">>
      [] c = "<" -> <<"\\", "u", "0", "0", "3", "c">>
      [] c = ">" -> <<"\\", "u", "0", "0", "3", "e">>
      [] c = "&" -> <<"\\", "u", "0", "0", "2", "6">>
      [] OTHER -> <<c>>

EncodeString(s) ==
    <<"\"">> \o Flatten([i \in 1..Len(s) |-> EscapeChar(s[i])]) \o <<"\"">>

EncodeBool(b) ==
    IF b THEN <<"t", "r", "u", "e">> ELSE <<"f", "a", "l", "s", "e">>

\* Version.MarshalJSON: the texts json.Marshal can return for v, the
\* fields in the order of their declaration.  A slice without elements is
\* encoded as null when it is nil and as [] when it is not, and
\* v.version = << >> stands for both.
MarshalJSON(v) ==
    {<<"{">> \o EncodeString(JsonKeys.original) \o <<":">>
            \o EncodeString(v.original)
        \o <<",">> \o EncodeString(JsonKeys.alpha) \o <<":">>
            \o EncodeBool(v.alpha)
        \o <<",">> \o EncodeString(JsonKeys.qv) \o <<":">> \o EncodeBool(v.qv)
        \o <<",">> \o EncodeString(JsonKeys.version) \o <<":">> \o slice
        \o <<"}">> :
        slice \in
            IF v.version = << >> THEN {Null, <<"[", "]">>}
            ELSE {<<"[">>
                    \o Join([i \in 1..Len(v.version) |->
                                FormatInt(v.version[i])], ",")
                    \o <<"]">>}}

\* the error of json.Unmarshal: a syntax error or an UnmarshalTypeError
errUnmarshal == "json: cannot unmarshal"

\* what a scan of a value returns: its kind, the value and the index after
\* it, or that there is no value
NoValue == [ok |-> FALSE, kind |-> "", val |-> << >>, next |-> 0]
Scanned(kind, val, next) ==
    [ok |-> TRUE, kind |-> kind, val |-> val, next |-> next]

\* data[i], and "" past the end of data
At(data, i) == IF i >= 1 /\ i <= Len(data) THEN data[i] ELSE ""

\* the literal lit stands at data[i]
HasAt(data, i, lit) ==
    i + Len(lit) - 1 <= Len(data) /\ SubSeq(data, i, i + Len(lit) - 1) = lit

\* the character a \uXXXX escape stands for, "" when it is none of the
\* characters EscapeChar writes that way
Unicode(hex) ==
    CASE hex = <<"0", "0", "3", "c">> -> "<"
      [] hex = <<"0", "0", "3", "e">> -> ">"
      [] hex = <<"0", "0", "2", "6">> -> "&"
      [] OTHER -> ""

RECURSIVE ScanChars(_, _, _)
\* unquote: the characters of a string from data[i] up to the closing quote
ScanChars(data, i, acc) ==
    IF i > Len(data) THEN NoValue
    ELSE IF data[i] = "\"" THEN Scanned("string", acc, i + 1)
    ELSE IF data[i] = "\\"
    THEN IF At(data, i + 1) \in {"\"", "\\", "/"}
         THEN With(Append(acc, data[i + 1]), LAMBDA more :
                  ScanChars(data, i + 2, more))
         ELSE IF At(data, i + 1) = "n"
         THEN With(Append(acc, "\n"), LAMBDA more :
                  ScanChars(data, i + 2, more))
         ELSE IF At(data, i + 1) = "u" /\ i + 5 <= Len(data)
                 /\ Unicode(SubSeq(data, i + 2, i + 5)) # ""
         THEN With(Append(acc, Unicode(SubSeq(data, i + 2, i + 5))),
                   LAMBDA more : ScanChars(data, i + 6, more))
         ELSE NoValue
    ELSE With(Append(acc, data[i]), LAMBDA more :
             ScanChars(data, i + 1, more))

\* an integer: -? (0 | [1-9][0-9]*); a fraction or an exponent does not
\* fit an int64
ScanNumber(data, i) ==
    LET j == IF At(data, i) = "-" THEN i + 1 ELSE i
    IN  With(DigitRun(data, j), LAMBDA r :
            IF r = 0 \/ (r > 1 /\ data[j] = "0") THEN NoValue
            ELSE IF At(data, j + r) \in {".", "e", "E"} THEN NoValue
            ELSE With(Atoi(SubSeq(data, j, j + r - 1)), LAMBDA n :
                     Scanned("number", IF j > i THEN 0 - n ELSE n, j + r)))

RECURSIVE ScanElements(_, _, _)
\* after "[" or ",": an integer, then "," and more of them, or "]"
ScanElements(data, i, acc) ==
    With(ScanNumber(data, i), LAMBDA n :
        IF ~n.ok THEN NoValue
        ELSE With(Append(acc, n.val), LAMBDA more :
                 IF At(data, n.next) = ","
                 THEN ScanElements(data, n.next + 1, more)
                 ELSE IF At(data, n.next) = "]"
                 THEN Scanned("array", more, n.next + 1)
                 ELSE NoValue))

\* the value that starts at data[i]
ScanValue(data, i) ==
    IF At(data, i) = "\"" THEN ScanChars(data, i + 1, << >>)
    ELSE IF HasAt(data, i, EncodeBool(TRUE)) THEN Scanned("bool", TRUE, i + 4)
    ELSE IF HasAt(data, i, EncodeBool(FALSE))
    THEN Scanned("bool", FALSE, i + 5)
    ELSE IF HasAt(data, i, Null) THEN Scanned("null", << >>, i + 4)
    ELSE IF HasAt(data, i, <<"[", "]">>) THEN Scanned("array", << >>, i + 2)
    ELSE IF At(data, i) = "[" THEN ScanElements(data, i + 1, << >>)
    ELSE ScanNumber(data, i)

\* var obj struct {...}
ZeroObj ==
    [Original |-> << >>, Alpha |-> FALSE, Qv |-> FALSE, Version |-> << >>]

\* the field of obj that key names set to the value g: null leaves it as
\* it is, a value of another kind than the field is an UnmarshalTypeError,
\* and a key that names no field is skipped
SetField(obj, key, g) ==
    IF g.kind = "null" THEN Scanned("object", obj, g.next)
    ELSE IF key = JsonKeys.original
    THEN IF g.kind = "string"
         THEN Scanned("object", [obj EXCEPT !.Original = g.val], g.next)
         ELSE NoValue
    ELSE IF key = JsonKeys.alpha
    THEN IF g.kind = "bool"
         THEN Scanned("object", [obj EXCEPT !.Alpha = g.val], g.next)
         ELSE NoValue
    ELSE IF key = JsonKeys.qv
    THEN IF g.kind = "bool"
         THEN Scanned("object", [obj EXCEPT !.Qv = g.val], g.next)
         ELSE NoValue
    ELSE IF key = JsonKeys.version
    THEN IF g.kind = "array"
         THEN Scanned("object", [obj EXCEPT !.Version = g.val], g.next)
         ELSE NoValue
    ELSE Scanned("object", obj, g.next)

RECURSIVE ScanMembers(_, _, _)
\* after "{" or ",": "key":value, then "," and more of them, or "}" and
\* the end of data
ScanMembers(data, i, obj) ==
    IF At(data, i) # "\"" THEN NoValue
    ELSE
      With(ScanChars(data, i + 1, << >>), LAMBDA key :
        IF ~key.ok \/ At(data, key.next) # ":" THEN NoValue
        ELSE
          With(ScanValue(data, key.next + 1), LAMBDA g :
            IF ~g.ok THEN NoValue
            ELSE
              With(SetField(obj, key.val, g), LAMBDA set :
                IF ~set.ok THEN NoValue
                ELSE IF At(data, set.next) = ","
                THEN ScanMembers(data, set.next + 1, set.val)
                ELSE IF At(data, set.next) = "}" /\ set.next = Len(data)
                THEN set
                ELSE NoValue)))

\* json.Unmarshal(data, &obj)
Unmarshal(data) ==
    IF data = Null \/ data = <<"{", "}">> THEN Scanned("object", ZeroObj, 0)
    ELSE IF At(data, 1) = "{" THEN ScanMembers(data, 2, ZeroObj)
    ELSE NoValue

\* UnmarshalJSON without the assignment to v.qv
UnmarshalJSONWithoutQv(v, data) ==
    With(Unmarshal(data), LAMBDA r :
        IF ~r.ok THEN [v |-> v, err |-> errUnmarshal]
        ELSE [v |-> Version(r.val.Original, r.val.Alpha, v.qv,
                            r.val.Version),
              err |-> NoError])

\* Version.UnmarshalJSON: v after the call, and the error returned
UnmarshalJSON(v, data) ==
    With(Unmarshal(data), LAMBDA r :
        IF ~r.ok THEN [v |-> v, err |-> errUnmarshal]
        ELSE [v |-> Version(r.val.Original, r.val.Alpha, r.val.Qv,
                            r.val.Version),
              err |-> NoError])

\* MustParse: the Version returned, or that it panicked
MustParse(version) ==
    With(Parse(version), LAMBDA r :
        IF r.err # NoError THEN [panicked |-> TRUE, v |-> ZeroVersion]
        ELSE [panicked |-> FALSE, v |-> r.v])

(***************************************************************************)
(* The Versions, the documents and the texts of SpecValue.                 *)
(***************************************************************************)
MaxCodecComps == 2  \* components of a Version written as a struct literal

\* the Versions written as struct literals: texts Parse accepts and texts
\* it refuses, with characters json.Marshal escapes
CodecVersions ==
    {Version(o, a, q, s) :
        o \in {<< >>, UndefText, <<"1", ".", "2">>, <<"x">>, <<"\"">>,
               <<"\\", "u">>, <<"<", "&">>},
        a \in BOOLEAN, q \in BOOLEAN,
        s \in SeqsUpTo({0, 12, 0 - 3}, MaxCodecComps)}

\* the arguments UnmarshalJSON is called with, besides what MarshalJSON
\* returned
Documents ==
    {<< >>,
     \* {}
     <<"{", "}">>,
     \* null
     Null,
     \* {"original":"1","version":[]}
     <<"{", "\"", "o", "r", "i", "g", "i", "n", "a", "l", "\"", ":", "\"",
       "1", "\"", ",", "\"", "v", "e", "r", "s", "i", "o", "n", "\"", ":",
       "[", "]", "}">>,
     \* {"original":"undef","alpha":true,"version":[5]}
     <<"{", "\"", "o", "r", "i", "g", "i", "n", "a", "l", "\"", ":", "\"",
       "u", "n", "d", "e", "f", "\"", ",", "\"", "a", "l", "p", "h", "a",
       "\"", ":", "t", "r", "u", "e", ",", "\"", "v", "e", "r", "s", "i",
       "o", "n", "\"", ":", "[", "5", "]", "}">>,
     \* {"extra":"y","qv":true,"version":[1,20]}
     <<"{", "\"", "e", "x", "t", "r", "a", "\"", ":", "\"", "y", "\"", ",",
       "\"", "q", "v", "\"", ":", "t", "r", "u", "e", ",", "\"", "v", "e",
       "r", "s", "i", "o", "n", "\"", ":", "[", "1", ",", "2", "0", "]",
       "}">>,
     \* {"original":1}
     <<"{", "\"", "o", "r", "i", "g", "i", "n", "a", "l", "\"", ":", "1",
       "}">>,
     \* {"qv":true
     <<"{", "\"", "q", "v", "\"", ":", "t", "r", "u", "e">>,
     \* {"version":[01]}
     <<"{", "\"", "v", "e", "r", "s", "i", "o", "n", "\"", ":", "[", "0",
       "1", "]", "}">>}

\* the arguments Parse and MustParse are called with
ValueInputs ==
    {<<"u", "n", "d", "e", "f">>,
     <<"1", "u", "n", "d", "e", "f">>,
     <<"1", ".", "2">>,
     <<"v", "1", ".", "2", ".", "3">>,
     <<"v", "1", ".", "2", ".", "3", ".", "4">>,
     <<"1", ".", "0", "2", "_", "0", "3">>,
     <<"1", ".">>,
     <<".", "1">>,
     <<".", "1", ".", "2">>,
     <<"1", "_", "0">>,
     <<"v", "1", ".", "2", "3", "4", "5", ".", "6">>,
     <<"x">>,
     <<"v">>, << >>}

(***************************************************************************)
(* Spec: one call of Parse, then Normal on what it returned, Parse on the   *)
(* normal form and Equal between the two Versions.                         *)
(***************************************************************************)
NoPair == [a |-> ZeroVersion, b |-> ZeroVersion, err |-> NoError]
NoAnswer == [panicked |-> FALSE, result |-> FALSE]

ParseIdle ==
    /\ input = << >> /\ ver = ZeroVersion /\ err = NoError
    /\ normal = << >> /\ ver2 = ZeroVersion /\ err2 = NoError
FracIdle == fracIn = << >> /\ fracOut = << >>
CmpIdle == vs = << >> /\ rel = << >>
PairIdle ==
    /\ cand = << >> /\ targ = << >> /\ pair = NoPair /\ compat = NoAnswer

\* no Version made yet, nothing encoded or decoded
ValueIdle ==
    /\ value = ZeroVersion /\ made = [by |-> "", arg |-> << >>]
    /\ bytes = << >> /\ dec = [v |-> ZeroVersion, err |-> NoError]

valueVars == <<value, made, bytes, dec>>
parseVars == <<input, ver, err, normal, ver2, err2>>
fracVars == <<fracIn, fracOut>>
cmpVars == <<vs, rel>>
pairVars == <<cand, targ, pair, compat>>

Init ==
    /\ pc = "start"
    /\ input \in Inputs
    /\ ver = ZeroVersion /\ err = NoError
    /\ normal = << >> /\ ver2 = ZeroVersion /\ err2 = NoError
    /\ FracIdle /\ CmpIdle /\ PairIdle /\ ValueIdle

\* v, err := Parse(input)
CallParse ==
    /\ pc = "start"
    /\ \E r \in {Parse(input)} : ver' = r.v /\ err' = r.err
    /\ pc' = "parsed"
    /\ UNCHANGED <<valueVars,
                   input, normal, ver2, err2, fracVars, cmpVars, pairVars>>

\* normal := v.Normal()
CallNormal ==
    /\ pc = "parsed" /\ err = NoError
    /\ normal' = Normal(ver)
    /\ pc' = "normal"
    /\ UNCHANGED <<valueVars,
                   input, ver, err, ver2, err2, fracVars, cmpVars, pairVars>>

\* v2, err2 := Parse(normal)
CallParseNormal ==
    /\ pc = "normal"
    /\ \E r \in {Parse(normal)} : ver2' = r.v /\ err2' = r.err
    /\ pc' = "reparsed"
    /\ UNCHANGED <<valueVars,
                   input, ver, err, normal, fracVars, cmpVars, pairVars>>

\* v2.Equal(&v)
CallEqualNormal ==
    /\ pc = "reparsed" /\ err2 = NoError
    /\ rel' = [k \in {"Equal"} |-> Equal(ver2, ver)]
    /\ pc' = "compared"
    /\ UNCHANGED <<valueVars, vs, parseVars, fracVars, pairVars>>

Next == CallParse \/ CallNormal \/ CallParseNormal \/ CallEqualNormal

Spec == Init /\ [][Next]_vars

(***************************************************************************)
(* SpecFrac: one call of getFractionValue.                                 *)
(***************************************************************************)
InitFrac ==
    /\ pc = "start"
    /\ fracIn \in FracInputs
    /\ fracOut = << >>
    /\ ParseIdle /\ CmpIdle /\ PairIdle /\ ValueIdle

CallGetFractionValue ==
    /\ pc = "start"
    /\ fracOut' = getFractionValue(fracIn)
    /\ pc' = "done"
    /\ UNCHANGED <<valueVars, fracIn, parseVars, cmpVars, pairVars>>

NextFrac == CallGetFractionValue

SpecFrac == InitFrac /\ [][NextFrac]_vars

(***************************************************************************)
(* SpecCmp: three Versions a, b and c, and the comparison methods called   *)
(* in the order of the source on every ordered pair of them; rel[m][x, y]  *)
(* is what x.m(y) returned.                                                *)
(***************************************************************************)
PairsOfNames == Names \X Names

InitCmp ==
    /\ pc = "LessThan"
    /\ vs \in [Names -> CompVersions]
    /\ rel = << >>
    /\ ParseIdle /\ FracIdle /\ PairIdle /\ ValueIdle

\* rel with the results of method m added
Record(m, table) ==
    [k \in (DOMAIN rel) \cup {m} |-> IF k = m THEN table ELSE rel[k]]

CallLessThan ==
    /\ pc = "LessThan"
    /\ rel' = Record("LessThan",
                     [p \in PairsOfNames |-> LessThan(vs[p[1]], vs[p[2]])])
    /\ pc' = "GreaterThan"
    /\ UNCHANGED <<valueVars, vs, parseVars, fracVars, pairVars>>

CallGreaterThan ==
    /\ pc = "GreaterThan"
    /\ rel' = Record("GreaterThan",
                     [p \in PairsOfNames |-> GreaterThan(vs[p[1]], vs[p[2]])])
    /\ pc' = "Equal"
    /\ UNCHANGED <<valueVars, vs, parseVars, fracVars, pairVars>>

CallEqual ==
    /\ pc = "Equal"
    /\ rel' = Record("Equal",
                     [p \in PairsOfNames |-> Equal(vs[p[1]], vs[p[2]])])
    /\ pc' = "LessThanOrEqual"
    /\ UNCHANGED <<valueVars, vs, parseVars, fracVars, pairVars>>

CallLessThanOrEqual ==
    /\ pc = "LessThanOrEqual"
    /\ rel' = Record("LessThanOrEqual",
                     [p \in PairsOfNames |->
                         LessThanOrEqual(vs[p[1]], vs[p[2]])])
    /\ pc' = "GreaterThanOrEqual"
    /\ UNCHANGED <<valueVars, vs, parseVars, fracVars, pairVars>>

CallGreaterThanOrEqual ==
    /\ pc = "GreaterThanOrEqual"
    /\ rel' = Record("GreaterThanOrEqual",
                     [p \in PairsOfNames |->
                         GreaterThanOrEqual(vs[p[1]], vs[p[2]])])
    /\ pc' = "NotEqual"
    /\ UNCHANGED <<valueVars, vs, parseVars, fracVars, pairVars>>

CallNotEqual ==
    /\ pc = "NotEqual"
    /\ rel' = Record("NotEqual",
                     [p \in PairsOfNames |-> NotEqual(vs[p[1]], vs[p[2]])])
    /\ pc' = "Compare"
    /\ UNCHANGED <<valueVars, vs, parseVars, fracVars, pairVars>>

CallCompare ==
    /\ pc = "Compare"
    /\ rel' = Record("Compare",
                     [p \in PairsOfNames |-> Compare(vs[p[1]], vs[p[2]])])
    /\ pc' = "done"
    /\ UNCHANGED <<valueVars, vs, parseVars, fracVars, pairVars>>

NextCmp ==
    \/ CallLessThan \/ CallGreaterThan \/ CallEqual
    \/ CallLessThanOrEqual \/ CallGreaterThanOrEqual
    \/ CallNotEqual \/ CallCompare

SpecCmp == InitCmp /\ [][NextCmp]_vars

(***************************************************************************)
(* SpecPair: two texts; CompatibleWith is called on them, and parseMulti   *)
(* followed by Equal on the two Versions it returned; then Parse on each   *)
(* of the texts, and MustParse and IsValid on the first.                   *)
(***************************************************************************)
InitPair ==
    /\ pc = "start"
    /\ cand \in PairInputs
    /\ targ \in PairInputs
    /\ pair = NoPair
    /\ compat = NoAnswer
    /\ rel = << >> /\ vs = << >>
    /\ ParseIdle /\ FracIdle /\ ValueIdle

CallCompatibleWith ==
    /\ pc = "start"
    /\ compat' = CompatibleWith(cand, targ)
    /\ pc' = "answered"
    /\ UNCHANGED <<valueVars, cand, targ, pair, parseVars, fracVars, cmpVars>>

CallParseMulti ==
    /\ pc = "answered"
    /\ pair' = parseMulti(cand, targ)
    /\ pc' = "parsed"
    /\ UNCHANGED <<valueVars,
                   cand, targ, compat, parseVars, fracVars, cmpVars>>

\* pair.a.Equal(&pair.b)
CallEqualPair ==
    /\ pc = "parsed" /\ pair.err = NoError
    /\ rel' = [k \in {"Equal"} |-> Equal(pair.a, pair.b)]
    /\ pc' = "compared"
    /\ UNCHANGED <<valueVars,
                   vs, cand, targ, pair, compat, parseVars, fracVars>>

\* v, err := Parse(cand)
CallParseCandidate ==
    /\ pc = "compared" \/ (pc = "parsed" /\ pair.err # NoError)
    /\ \E r \in {Parse(cand)} : ver' = r.v /\ err' = r.err
    /\ pc' = "candidate"
    /\ UNCHANGED <<valueVars, input, normal, ver2, err2, fracVars, cmpVars,
                   pairVars>>

\* v2, err2 := Parse(targ)
CallParseTarget ==
    /\ pc = "candidate"
    /\ \E r \in {Parse(targ)} : ver2' = r.v /\ err2' = r.err
    /\ pc' = "target"
    /\ UNCHANGED <<valueVars, input, normal, ver, err, fracVars, cmpVars,
                   pairVars>>

\* MustParse(cand)
CallMustParse ==
    /\ pc = "target"
    /\ rel' = Record("MustParse", MustParse(cand))
    /\ pc' = "must"
    /\ UNCHANGED <<valueVars, vs, parseVars, fracVars, pairVars>>

\* IsValid(cand)
CallIsValid ==
    /\ pc = "must"
    /\ rel' = Record("IsValid", IsValid(cand))
    /\ pc' = "valid"
    /\ UNCHANGED <<valueVars, vs, parseVars, fracVars, pairVars>>

NextPair ==
    \/ CallCompatibleWith \/ CallParseMulti \/ CallEqualPair
    \/ CallParseCandidate \/ CallParseTarget \/ CallMustParse \/ CallIsValid

SpecPair == InitPair /\ [][NextPair]_vars

(***************************************************************************)
(* SpecValue: a Version is made by one of the constructors of the package  *)
(* or written as a struct literal, the methods are called on it in the     *)
(* order of the source, what MarshalJSON returned is decoded into a new    *)
(* Version, and UnmarshalJSON is called on the Version itself.             *)
(***************************************************************************)
InitValue ==
    /\ pc = "new"
    /\ ValueIdle
    /\ rel = << >> /\ vs = << >>
    /\ ParseIdle /\ FracIdle /\ PairIdle

\* value, err := Parse(s)
CallParseValue ==
    /\ pc = "new"
    /\ \E s \in ValueInputs : \E r \in {Parse(s)} :
          /\ value' = r.v
          /\ made' = [by |-> "Parse", arg |-> s]
          /\ pc' = IF r.err = NoError THEN "IsAlpha" ELSE "failed"
    /\ UNCHANGED <<bytes, dec, cmpVars, parseVars, fracVars, pairVars>>

\* value := MustParse(s)
CallMustParseValue ==
    /\ pc = "new"
    /\ \E s \in ValueInputs : \E r \in {MustParse(s)} :
          /\ value' = r.v
          /\ made' = [by |-> "MustParse", arg |-> s]
          /\ pc' = IF r.panicked THEN "panicked" ELSE "IsAlpha"
    /\ UNCHANGED <<bytes, dec, cmpVars, parseVars, fracVars, pairVars>>

\* value := Undef()
CallUndef ==
    /\ pc = "new"
    /\ value' = Undef
    /\ made' = [by |-> "Undef", arg |-> << >>]
    /\ pc' = "IsAlpha"
    /\ UNCHANGED <<bytes, dec, cmpVars, parseVars, fracVars, pairVars>>

\* value := Version{original: ..., alpha: ..., qv: ..., version: ...}
CallLiteral ==
    /\ pc = "new"
    /\ \E v \in CodecVersions : value' = v
    /\ made' = [by |-> "literal", arg |-> << >>]
    /\ pc' = "IsAlpha"
    /\ UNCHANGED <<bytes, dec, cmpVars, parseVars, fracVars, pairVars>>

\* var value Version; err := value.UnmarshalJSON(d)
CallUnmarshalJSONNew ==
    /\ pc = "new"
    /\ \E d \in Documents : \E r \in {UnmarshalJSON(ZeroVersion, d)} :
          /\ value' = r.v
          /\ made' = [by |-> "UnmarshalJSON", arg |-> d]
          /\ pc' = IF r.err = NoError THEN "IsAlpha" ELSE "failed"
    /\ UNCHANGED <<bytes, dec, cmpVars, parseVars, fracVars, pairVars>>

CallIsAlpha ==
    /\ pc = "IsAlpha"
    /\ rel' = Record("IsAlpha", IsAlpha(value))
    /\ pc' = "IsQv"
    /\ UNCHANGED <<valueVars, vs, parseVars, fracVars, pairVars>>

CallIsQv ==
    /\ pc = "IsQv"
    /\ rel' = Record("IsQv", IsQv(value))
    /\ pc' = "Normal"
    /\ UNCHANGED <<valueVars, vs, parseVars, fracVars, pairVars>>

CallNormalValue ==
    /\ pc = "Normal"
    /\ rel' = Record("Normal", Normal(value))
    /\ pc' = "Stringify"
    /\ UNCHANGED <<valueVars, vs, parseVars, fracVars, pairVars>>

CallStringify ==
    /\ pc = "Stringify"
    /\ rel' = Record("Stringify", Stringify(value))
    /\ pc' = "Raw"
    /\ UNCHANGED <<valueVars, vs, parseVars, fracVars, pairVars>>

CallRaw ==
    /\ pc = "Raw"
    /\ rel' = Record("Raw", Raw(value))
    /\ pc' = "Numify"
    /\ UNCHANGED <<valueVars, vs, parseVars, fracVars, pairVars>>

CallNumify ==
    /\ pc = "Numify"
    /\ rel' = Record("Numify", Numify(value))
    /\ pc' = "MarshalJSON"
    /\ UNCHANGED <<valueVars, vs, parseVars, fracVars, pairVars>>

\* bytes, _ := value.MarshalJSON()
CallMarshalJSON ==
    /\ pc = "MarshalJSON"
    /\ \E b \in MarshalJSON(value) : bytes' = b
    /\ pc' = "Decode"
    /\ UNCHANGED <<value, made, dec, cmpVars, parseVars, fracVars, pairVars>>

\* var actual Version; err := actual.UnmarshalJSON(bytes)
CallUnmarshalJSONDecode ==
    /\ pc = "Decode"
    /\ dec' = UnmarshalJSON(ZeroVersion, bytes)
    /\ pc' = "UnmarshalJSON"
    /\ UNCHANGED <<value, made, bytes, cmpVars, parseVars, fracVars,
                   pairVars>>

\* err := value.UnmarshalJSON(d)
CallUnmarshalJSON ==
    /\ pc = "UnmarshalJSON"
    /\ \E d \in Documents : \E r \in {UnmarshalJSON(value, d)} :
          /\ value' = r.v
          /\ rel' = Record("UnmarshalJSON", r.err)
    /\ pc' = "done"
    /\ UNCHANGED <<made, bytes, dec, vs, parseVars, fracVars, pairVars>>

NextValue ==
    \/ CallParseValue \/ CallMustParseValue \/ CallUndef \/ CallLiteral
    \/ CallUnmarshalJSONNew
    \/ CallIsAlpha \/ CallIsQv \/ CallNormalValue \/ CallStringify
    \/ CallRaw \/ CallNumify
    \/ CallMarshalJSON \/ CallUnmarshalJSONDecode \/ CallUnmarshalJSON

SpecValue == InitValue /\ [][NextValue]_vars

(***************************************************************************)
(* The properties.                                                         *)
(***************************************************************************)
Parsed == pc # "start"

\* C1: for every input that Parse accepts, Raw() (the stored original) is
\* the input text itself.
C1_RawRoundTrip ==
    (Parsed /\ err = NoError) => ver.original = input

\* the match a grammar has in s that reaches back furthest from the end of
\* s: the submatches of the longest suffix it matches, or nil
LongestMatch(Grammar(_), s) ==
    LET starts == {i \in 1..Len(s) : Grammar(Suffix(s, i)) # nil}
    IN  IF starts = {} THEN nil
        ELSE Grammar(Suffix(s, CHOOSE i \in starts :
            \A j \in starts : Len(Suffix(s, i)) >= Len(Suffix(s, j))))

LaxSpan(s) == LongestMatch(LaxVersionRegex, s)
StrictSpan(s) == LongestMatch(StrictVersionRegex, s)

Returned == [v |-> ver, err |-> err]

\* C2: Parse returns the lax reconstruction (or its error) when only lax
\* matches; when both match and the lax span is strictly longer, the lax
\* reconstruction unless it raises alpha-without-decimal, and then the
\* strict one with no error; when both match and the lax span is not
\* longer, the strict reconstruction; when only strict matches, the strict
\* reconstruction; when neither matches, the invalid-version-string error.
C2_ParseSelection ==
    Parsed =>
      LET l == LaxSpan(input)
          s == StrictSpan(input)
      IN  /\ (l # nil /\ s = nil) => Returned = laxVersion(l)
          /\ (l # nil /\ s # nil /\ Len(l[0]) > Len(s[0])
                /\ laxVersion(l).err # errAlphaWithoutDecimal)
                => Returned = laxVersion(l)
          /\ (l # nil /\ s # nil /\ Len(l[0]) > Len(s[0])
                /\ laxVersion(l).err = errAlphaWithoutDecimal)
                => (Returned = strictVersion(s) /\ err = NoError)
          /\ (l # nil /\ s # nil /\ Len(l[0]) <= Len(s[0]))
                => Returned = strictVersion(s)
          /\ (l = nil /\ s # nil) => Returned = strictVersion(s)
          /\ (l = nil /\ s = nil)
                => (err = errInvalidVersion /\ ver = ZeroVersion)

\* C2, its case: both grammars matched, the lax span was the longer one,
\* the lax reconstruction raised alpha-without-decimal and Parse returned
\* the strict reconstruction.
C2_Witness ==
    /\ pc = "parsed"
    /\ LaxSpan(input) # nil /\ StrictSpan(input) # nil
    /\ Len(LaxSpan(input)[0]) > Len(StrictSpan(input)[0])
    /\ laxVersion(LaxSpan(input)).err = errAlphaWithoutDecimal
    /\ err = NoError
    /\ ver = strictVersion(StrictSpan(input)).v

\* a bare integer followed directly by an underscore group: [0-9]+_[0-9]+
BareIntegerWithAlpha(s) ==
    LET r == DigitRun(s, 1)
    IN  /\ r >= 1
        /\ r + 1 <= Len(s) /\ s[r + 1] = "_"
        /\ DigitRun(s, r + 2) >= 1
        /\ r + 1 + DigitRun(s, r + 2) = Len(s)

\* C3: Parse of a bare integer followed directly by an underscore group
\* (such as "1_0") fails with the alpha-without-decimal error.
C3_AlphaWithoutDecimalFails ==
    (Parsed /\ BareIntegerWithAlpha(input)) => err = errAlphaWithoutDecimal

\* the text is 'v', an integer, one or more dot-separated digit groups and
\* an optional '_digits' suffix, or 'v' and an integer alone
VDottedText(s) == LaxDottedA(s) # nil

\* the components the text of a 'v' form denotes: the text after the 'v'
\* with the '_' taken out (the alpha digits then end the last group), cut
\* at the dots, each piece read as an integer; zeros are added at the end
\* while there are fewer than 3
VDottedComponents(s) ==
    LET body == SelectSeq(Tail(s), LAMBDA c : c # "_")
        parts == SplitDots(body)
        n == IF Len(parts) < 3 THEN 3 ELSE Len(parts)
    IN  [i \in 1..n |-> IF i <= Len(parts) THEN Atoi(parts[i]) ELSE 0]

\* C4: for every input written as 'v', an integer, dot-separated groups
\* and an optional alpha suffix, the components are the integer and every
\* group in order (alpha digits joined to the last group), with zeros
\* added only to reach 3 components; no group is dropped, and qv is true.
C4_VDottedComponents ==
    (Parsed /\ err = NoError /\ VDottedText(input))
        => (ver.version = VDottedComponents(input) /\ ver.qv = TRUE)

Called(m) == m \in DOMAIN rel

\* the components of the Version named x
Comps(x) == vs[x].version

CommonLength(x, y) == min(Len(Comps(x)), Len(Comps(y)))

\* i is the first index within the common length where x and y differ
FirstDifference(x, y, i) ==
    /\ i \in 1..CommonLength(x, y)
    /\ Comps(x)[i] # Comps(y)[i]
    /\ \A j \in 1..(i - 1) : Comps(x)[j] = Comps(y)[j]

\* C5: a.LessThan(b) (a.GreaterThan(b)) holds iff at the first index
\* within the common length where the components differ a's is the smaller
\* (larger); a.Equal(b) holds iff no index within the common length
\* differs, whatever components follow on either side.
C5_PrefixLimitedOrder ==
    \A p \in PairsOfNames :
      LET x == p[1]
          y == p[2]
      IN  /\ Called("LessThan") =>
                (rel["LessThan"][p] <=>
                    \E i \in 1..CommonLength(x, y) :
                        FirstDifference(x, y, i) /\ Comps(x)[i] < Comps(y)[i])
          /\ Called("GreaterThan") =>
                (rel["GreaterThan"][p] <=>
                    \E i \in 1..CommonLength(x, y) :
                        FirstDifference(x, y, i) /\ Comps(x)[i] > Comps(y)[i])
          /\ Called("Equal") =>
                (rel["Equal"][p] <=>
                    \A i \in 1..CommonLength(x, y) : Comps(x)[i] = Comps(y)[i])

\* C5, its case: a is a proper prefix of the longer b and was found Equal
\* to it, and b differs from c first at an index where b's component is
\* the smaller and was found LessThan c.
C5_Witness ==
    /\ pc = "done"
    /\ Comps("a") = <<2>> /\ Comps("b") = <<2, 1>> /\ Comps("c") = <<2, 5>>
    /\ rel["Equal"][<<"a", "b">>]
    /\ rel["LessThan"][<<"b", "c">>]
    /\ rel["GreaterThan"][<<"c", "b">>]

\* C6: Equal is reflexive and symmetric, and not transitive: [5] is Equal
\* to [5,1] and to [5,2], while [5,1] and [5,2] are NotEqual.
C6_EqualNotTransitive ==
    /\ Called("Equal") =>
          /\ \A x \in Names : rel["Equal"][<<x, x>>]
          /\ \A x, y \in Names :
                rel["Equal"][<<x, y>>] = rel["Equal"][<<y, x>>]
    /\ (Called("NotEqual")
          /\ Comps("a") = <<5>> /\ Comps("b") = <<5, 1>>
          /\ Comps("c") = <<5, 2>>)
          => /\ rel["Equal"][<<"a", "b">>] /\ rel["Equal"][<<"b", "a">>]
             /\ rel["Equal"][<<"a", "c">>] /\ rel["Equal"][<<"c", "a">>]
             /\ ~rel["Equal"][<<"b", "c">>]
             /\ rel["NotEqual"][<<"b", "c">>]
             /\ rel["NotEqual"][<<"c", "b">>]

\* C6, its case: the three Versions [5], [5,1], [5,2] have been compared.
C6_Witness ==
    /\ pc = "done"
    /\ Comps("a") = <<5>> /\ Comps("b") = <<5, 1>> /\ Comps("c") = <<5, 2>>
    /\ rel["Equal"][<<"a", "b">>] /\ rel["Equal"][<<"a", "c">>]
    /\ rel["NotEqual"][<<"b", "c">>]

\* C7: Parse("v5.34") is Equal to Parse("v5.34.0") and to Parse("v5.34.1").
C7_FewerGroupsEqual ==
    (/\ pc = "compared"
     /\ cand = <<"v", "5", ".", "3", "4">>
     /\ targ \in {<<"v", "5", ".", "3", "4", ".", "0">>,
                  <<"v", "5", ".", "3", "4", ".", "1">>})
        => rel["Equal"] = TRUE

\* how many of the booleans bs are true
Count(bs) == Cardinality({i \in 1..Len(bs) : bs[i]})

\* C8: exactly one of LessThan, Equal, GreaterThan holds of a and b;
\* Compare is -1, 0 or 1 respectively; LessThanOrEqual is LessThan or
\* Equal, GreaterThanOrEqual is GreaterThan or Equal, NotEqual is not Equal.
C8_RelationsConsistent ==
    pc = "done" =>
      \A p \in PairsOfNames :
        LET lt == rel["LessThan"][p]
            eq == rel["Equal"][p]
            gt == rel["GreaterThan"][p]
        IN  /\ Count(<<lt, eq, gt>>) = 1
            /\ rel["Compare"][p] =
                  (IF lt THEN 0 - 1 ELSE IF eq THEN 0 ELSE 1)
            /\ rel["LessThanOrEqual"][p] = (lt \/ eq)
            /\ rel["GreaterThanOrEqual"][p] = (gt \/ eq)
            /\ rel["NotEqual"][p] = ~eq

\* C8, its case: every method has been called on Versions of which one
\* pair is less, one equal and one greater.
C8_Witness ==
    /\ pc = "done"
    /\ rel["Compare"][<<"a", "b">>] = 0 - 1
    /\ rel["Compare"][<<"b", "c">>] = 0 /\ Comps("b") # Comps("c")
    /\ rel["Compare"][<<"c", "a">>] = 1
    /\ rel["LessThanOrEqual"][<<"a", "b">>]
    /\ ~rel["GreaterThanOrEqual"][<<"a", "b">>]

\* C9: for every input Parse accepts, Parse of its Normal() succeeds and
\* gives a Version Equal to the first.
C9_NormalReparses ==
    /\ pc = "reparsed" => err2 = NoError
    /\ pc = "compared" => rel["Equal"] = TRUE

\* C9, its case: a decimal-form input whose normal form has other
\* components than the text shows was parsed, normalised, parsed again
\* and compared.
C9_Witness ==
    /\ pc = "compared"
    /\ input = <<"1", ".", "0", "2", "_", "0", "3">>
    /\ normal = <<"v", "1", ".", "2", "0", ".", "3", "0", "0">>
    /\ ver2.version = <<1, 20, 300>>
    /\ rel["Equal"]

\* the argument is a string of decimal digits
DigitString(s) == \A i \in 1..Len(s) : s[i] \in Digits

\* the digit at index i of s counted from 0, and 0 past the end of s (the
\* right padding)
DigitAt(s, i) == IF i + 1 <= Len(s) THEN DigitVal(s[i + 1]) ELSE 0

\* C10: for a string of n >= 1 digits getFractionValue returns ceil(n/3)
\* integers, the i-th the value of digits 3i..3i+2 with the last chunk
\* padded on the right with '0' to three digits; for the empty string it
\* returns no components.
C10_FractionGrouping ==
    (pc = "done" /\ DigitString(fracIn)) =>
      LET n == Len(fracIn)
      IN  /\ Len(fracOut) = (n + 2) \div 3
          /\ \A i \in 0..(Len(fracOut) - 1) :
                fracOut[i + 1] = 100 * DigitAt(fracIn, 3 * i)
                                  + 10 * DigitAt(fracIn, 3 * i + 1)
                                  + DigitAt(fracIn, 3 * i + 2)

\* C10, its case: "0023" has been grouped into [2, 300].
C10_Witness ==
    /\ pc = "done"
    /\ fracIn = <<"0", "0", "2", "3">>
    /\ fracOut = <<2, 300>>

\* the text ends in an alpha suffix: '_' followed by one or more digits
HasAlphaSuffix(s) ==
    \E k \in 1..(Len(s) - 1) :
        s[k] = "_" /\ \A j \in (k + 1)..Len(s) : s[j] \in Digits

\* the text is a decimal form: an integer with an optional fraction or a
\* bare '.', or a leading-dot fraction, with an optional alpha suffix
DecimalText(s) == LaxDecimalA(s) # nil \/ LaxDecimalB(s) # nil

\* the digits of s grouped in threes, the last group padded on the right
Grouped(s) ==
    [i \in 1..((Len(s) + 2) \div 3) |->
        100 * DigitAt(s, 3 * (i - 1)) + 10 * DigitAt(s, 3 * (i - 1) + 1)
            + DigitAt(s, 3 * (i - 1) + 2)]

\* the components the text of a decimal form denotes
DecimalComponents(s) ==
    LET r == DigitRun(s, 1)
        f == IF r + 1 <= Len(s) /\ s[r + 1] = "." THEN DigitRun(s, r + 2)
             ELSE 0
        fraction == SubSeq(s, r + 2, r + 1 + f)
        alphaDigits ==
            IF HasAlphaSuffix(s)
            THEN Suffix(s, 1 + CHOOSE k \in 1..Len(s) : s[k] = "_")
            ELSE << >>
    IN  <<IF r = 0 THEN 0 ELSE Atoi(SubSeq(s, 1, r))>>
            \o Grouped(fraction \o alphaDigits)
            \o (IF s[Len(s)] = "." /\ f = 0 THEN <<0>> ELSE << >>)

\* C11: for every accepted decimal-form input the components are the
\* leading integer (0 when the text starts with '.'), the grouping of the
\* fraction digits followed by the alpha digits, and one more 0 exactly
\* when the text ends with '.' and has no fraction digits; qv is false and
\* alpha is true iff the suffix is present.
C11_DecimalComponents ==
    (Parsed /\ err = NoError /\ DecimalText(input))
        => /\ ver.version = DecimalComponents(input)
           /\ IsQv(ver) = FALSE
           /\ IsAlpha(ver) = HasAlphaSuffix(input)

\* the text is matched by lax dotted sub-form B: no 'v', an optional
\* integer, two or more dot-separated groups and an optional alpha suffix
DottedBText(s) == LaxDottedB(s) # nil

\* the components the text of sub-form B denotes: the text with the '_'
\* taken out, cut at the dots, each piece read as an integer and an empty
\* first piece as 0
DottedBComponents(s) ==
    LET parts == SplitDots(SelectSeq(s, LAMBDA c : c # "_"))
    IN  [i \in 1..Len(parts) |->
            IF parts[i] = << >> THEN 0 ELSE Atoi(parts[i])]

OneTwoThree == <<"1", ".", "2", ".", "3">>
VOneTwoThree == <<"v", "1", ".", "2", ".", "3">>

StartsWithV(s) == s # << >> /\ s[1] = "v"

\* how many dots the text has
DotCount(s) == Cardinality({i \in 1..Len(s) : s[i] = "."})

C14_AlphaIffSuffix ==
    (Parsed /\ err = NoError) => (IsAlpha(ver) <=> HasAlphaSuffix(input))

\* the methods have been called on value as it was made: UnmarshalJSON has
\* not been called on it
AsMade == pc \notin {"new", "failed", "panicked", "done"}

\* the entries Normal() shows for a component sequence: the components,
\* and zeros after them while there are fewer than 3
NormalEntries(version) ==
    [i \in 1..(IF Len(version) < 3 THEN 3 ELSE Len(version)) |->
        IF i <= Len(version) THEN version[i] ELSE 0]

\* t is n in decimal: its digits without a leading zero, behind a '-' when
\* n is negative
IsDecimalOf(t, n) ==
    /\ t # << >>
    /\ (n < 0) = (t[1] = "-")
    /\ LET digits == IF n < 0 THEN Tail(t) ELSE t
       IN  /\ digits # << >> /\ DigitString(digits)
           /\ Len(digits) > 1 => digits[1] # "0"
           /\ Atoi(digits) = (IF n < 0 THEN 0 - n ELSE n)

\* C15: Normal() is 'v' followed by the components, padded with zeros on
\* the right to max(3, len(components)) entries and never truncated, each
\* entry in decimal, joined with '.'.
C15_NormalRendering ==
    (AsMade /\ Called("Normal")) =>
      LET t == rel["Normal"]
          entries == NormalEntries(value.version)
      IN  /\ t # << >> /\ t[1] = "v"
          /\ LET parts == SplitDots(Tail(t))
             IN  /\ Len(parts) = Len(entries)
                 /\ \A i \in 1..Len(parts) : IsDecimalOf(parts[i], entries[i])

\* C15, its case: a Version of four components and one of one component
\* cannot be in one state; this is the former, made by Parse and shown in
\* full.
C15_Witness ==
    /\ pc = "Stringify"
    /\ made = [by |-> "Parse",
               arg |-> <<"v", "1", ".", "2", ".", "3", ".", "4">>]
    /\ value.version = <<1, 2, 3, 4>>
    /\ rel["Normal"] = <<"v", "1", ".", "2", ".", "3", ".", "4">>

\* C16: for any Version v, UnmarshalJSON(MarshalJSON(v)) into a new
\* Version succeeds and gives the original, alpha, qv and components of v.
C16_CodecRoundTrip ==
    pc = "UnmarshalJSON" =>
        /\ dec.err = NoError
        /\ dec.v.original = value.original
        /\ dec.v.alpha = value.alpha
        /\ dec.v.qv = value.qv
        /\ dec.v.version = value.version

\* C16, its case: a Version whose original Parse refuses and has to be
\* escaped, with a negative component, was encoded and decoded.
C16_Witness ==
    /\ pc = "UnmarshalJSON"
    /\ value = Version(<<"\\", "u">>, TRUE, FALSE, <<12, 0 - 3>>)
    /\ bytes = <<"{", "\"", "o", "r", "i", "g", "i", "n", "a", "l", "\"",
                   ":", "\"", "\\", "\\", "u", "\"", ",", "\"", "a", "l",
                   "p", "h", "a", "\"", ":", "t", "r", "u", "e", ",", "\"",
                   "q", "v", "\"", ":", "f", "a", "l", "s", "e", ",", "\"",
                   "v", "e", "r", "s", "i", "o", "n", "\"", ":", "[", "1",
                   "2", ",", "-", "3", "]", "}">>
    /\ dec = [v |-> value, err |-> NoError]

\* C17: after any exported operation on an existing Version (the
\* accessors, Normal, Stringify, Raw, the comparisons, MarshalJSON,
\* UnmarshalJSON) its original, alpha, qv and components are unchanged.
C17_Immutable ==
    [][pc # "new" => value' = value]_vars

\* C18: every Version obtained without an error from Parse, MustParse,
\* Undef or UnmarshalJSON has at least one component.
C18_AtLeastOneComponent ==
    (pc \notin {"new", "failed", "panicked"}
       /\ made.by \in {"Parse", "MustParse", "Undef", "UnmarshalJSON"})
        => Len(value.version) >= 1

\* the distinguished value: original "undef", alpha false, qv false,
\* components [0]
UndefValue == Version(UndefText, FALSE, FALSE, <<0>>)

\* Parse("undef") and Undef() give the distinguished value, and for it
\* Normal() is "v0.0.0" and Raw() is "undef"
UndefMade ==
    /\ (AsMade /\ made = [by |-> "Parse", arg |-> UndefText])
          => value = UndefValue
    /\ (AsMade /\ made.by = "Undef") => value = UndefValue
    /\ (AsMade /\ value = UndefValue /\ Called("Normal"))
          => rel["Normal"] = <<"v", "0", ".", "0", ".", "0">>
    /\ (AsMade /\ value = UndefValue /\ Called("Raw"))
          => rel["Raw"] = UndefText

\* C19 as stated: Parse("undef") and Undef() produce the same
\* distinguished value; for it Normal() is "v0.0.0", Stringify() is "0"
\* and Raw() is "undef"; for every other Version Stringify() equals Raw(),
\* the stored original.
C19_UndefAndStringify ==
    /\ UndefMade
    /\ (AsMade /\ Called("Raw")) =>
          /\ rel["Raw"] = value.original
          /\ value = UndefValue => rel["Stringify"] = <<"0">>
          /\ value # UndefValue => rel["Stringify"] = rel["Raw"]

\* C19, amended: Parse("undef") and Undef() produce the same distinguished
\* value; for it Normal() is "v0.0.0", Stringify() is "0" and Raw() is
\* "undef"; Stringify() is "0" for every Version whose original is
\* "undef", whatever its flags and components, and equals Raw(), the
\* stored original, for every Version with another original.
C19_UndefByOriginal ==
    /\ UndefMade
    /\ (AsMade /\ Called("Raw")) =>
          /\ rel["Raw"] = value.original
          /\ value.original = UndefText => rel["Stringify"] = <<"0">>
          /\ value.original # UndefText => rel["Stringify"] = rel["Raw"]

\* C19, its case: Parse("undef") gave the value Undef() gives, and Normal,
\* Stringify and Raw have been called on it.
C19_Witness ==
    /\ pc = "MarshalJSON"
    /\ made = [by |-> "Parse", arg |-> UndefText]
    /\ value = Undef
    /\ rel["Normal"] = <<"v", "0", ".", "0", ".", "0">>
    /\ rel["Stringify"] = <<"0">>
    /\ rel["Raw"] = UndefText

\* a is not less than b: at the first index within the common length
\* where they differ, if there is one, a's component is the larger
AtLeast(a, b) ==
    ~\E i \in 1..min(Len(a), Len(b)) :
        a[i] < b[i] /\ \A j \in 1..(i - 1) : a[j] = b[j]

\* C20: CompatibleWith(candidate, target) returns
\* Parse(candidate).GreaterThanOrEqual(Parse(target)) when both texts
\* parse and, like MustParse, panics exactly when Parse returns an error
\* for an argument; IsValid(s) is true exactly when Parse(s) returns no
\* error.
C20_CompatibleWith ==
    /\ pc \in {"target", "must", "valid"} =>
          /\ compat.panicked = (err # NoError \/ err2 # NoError)
          /\ ~compat.panicked =>
                /\ compat.result = GreaterThanOrEqual(ver, ver2)
                /\ compat.result = AtLeast(ver.version, ver2.version)
    /\ Called("MustParse") =>
          /\ rel["MustParse"].panicked = (err # NoError)
          /\ ~rel["MustParse"].panicked => rel["MustParse"].v = ver
    /\ Called("IsValid") => rel["IsValid"] = (err = NoError)

\* C20, its case: both texts parse, the candidate "5.1" ([5,100]) is older
\* than the target "5.34" ([5,340]) and CompatibleWith returned false;
\* MustParse and IsValid have been called on the candidate.
C20_Witness ==
    /\ pc = "valid"
    /\ cand = <<"5", ".", "1">> /\ targ = <<"5", ".", "3", "4">>
    /\ err = NoError /\ err2 = NoError
    /\ compat = [panicked |-> FALSE, result |-> FALSE]
    /\ rel["MustParse"] = [panicked |-> FALSE, v |-> ver]
    /\ rel["IsValid"] = TRUE

\* the field Numify writes for a component c >= 0: c in decimal, at least
\* three digits wide
NumifyField(c) ==
    LET w == CHOOSE k \in 3..10 : c < 10 ^ k /\ (k > 3 => c >= 10 ^ (k - 1))
    IN  [p \in 1..w |-> DigitChar((c \div 10 ^ (w - p)) % 10)]

\* C21: Numify() returns component 0 when there is exactly one component;
\* otherwise it is the number written as component 0, a decimal point and
\* the fields of the later components one after the other, each the
\* component in decimal, padded with '0' on the left to three digits and
\* wider, not cut, when the component is above 999.
C21_Numify ==
    (AsMade /\ Called("Numify") /\ Len(value.version) >= 1
        /\ \A i \in 1..Len(value.version) : value.version[i] >= 0) =>
      LET r == rel["Numify"]
          fields == Flatten([i \in 1..(Len(value.version) - 1) |->
                               NumifyField(value.version[i + 1])])
      IN  /\ ~r.panicked
          /\ ~r.f.neg /\ r.f.whole = value.version[1]
          /\ Len(r.f.frac) <= Len(fields)
          /\ \A p \in 1..Len(fields) :
                fields[p] = IF p <= Len(r.f.frac) THEN r.f.frac[p] ELSE "0"
          /\ r.f.frac # << >> => r.f.frac[Len(r.f.frac)] # "0"

\* C21, its case: Parse("v1.2345.6") has the components [1,2345,6] and
\* Numify() is 1.2345006.
C21_Witness ==
    /\ pc = "MarshalJSON"
    /\ made.by = "Parse" /\ value.version = <<1, 2345, 6>>
    /\ rel["Numify"] =
          [panicked |-> FALSE,
           f |-> [neg |-> FALSE, whole |-> 1,
                  frac |-> <<"2", "3", "4", "5", "0", "0", "6">>]]

\* exactly one of the texts is not empty
OneOf(texts) == Cardinality({i \in 1..Len(texts) : texts[i] # << >>}) = 1

\* the captures of a lax match select one reconstruction: undef, dotted
\* or decimal, and form A or B of the dotted or decimal one
LaxOneBranch(l) ==
    /\ OneOf(<<l[1], l[2], l[9]>>)
    /\ l[2] # << >> => OneOf(<<l[3], l[7]>>)
    /\ l[9] # << >> => OneOf(<<l[10], l[13]>>)

\* C22: Parse never reaches a defensive fault: whenever a grammar matches,
\* the captured fragments satisfy exactly one reconstruction branch
\* (undef, dotted A, dotted B, decimal A, decimal B for lax; decimal or
\* dotted for strict), and neither the reconstruction Parse runs nor the
\* one of the other grammar's match panics.
C22_NoDefensiveFault ==
    /\ err # PanicFault /\ err2 # PanicFault
    /\ Parsed =>
          LET l == LaxSpan(input)
              t == StrictSpan(input)
          IN  /\ l # nil =>
                    LaxOneBranch(l) /\ laxVersion(l).err # PanicFault
              /\ t # nil =>
                    OneOf(<<t[1], t[4]>>)
                        /\ strictVersion(t).err # PanicFault

\* C22, its case: both grammars match ".0.2_03", lax as the dotted form B
\* without an integer and strict the last digit alone, and Parse returned
\* the lax reconstruction.
C22_Witness ==
    /\ pc = "parsed" /\ input = <<".", "0", ".", "2", "_", "0", "3">>
    /\ LaxSpan(input)[7] # << >> /\ LaxSpan(input)[6] = << >>
    /\ StrictSpan(input)[0] = <<"3">>
    /\ err = NoError /\ ver = laxVersion(LaxSpan(input)).v
    /\ ver.alpha

\* C23: for every text that the strict grammar matches in full, the lax
\* grammar also matches it in full and the lax reconstruction yields the
\* same original, alpha, qv and components as the strict one, so that
\* Parse's choice of strict on equal spans never changes the Version.
C23_StrictWithinLax ==
    (Parsed /\ StrictSpan(input) # nil /\ StrictSpan(input)[0] = input) =>
        /\ LaxSpan(input) # nil /\ LaxSpan(input)[0] = input
        /\ laxVersion(LaxSpan(input)) = strictVersion(StrictSpan(input))
        /\ Returned = laxVersion(LaxSpan(input))

\* s ends with the text e
EndsWith(s, e) ==
    Len(s) >= Len(e) /\ SubSeq(s, Len(s) - Len(e) + 1, Len(s)) = e

\* s ends with a decimal digit, with "undef", or with a decimal digit and
\* a '.'
Acceptable(s) ==
    \/ \E c \in Digits : EndsWith(s, <<c>>)
    \/ EndsWith(s, UndefText)
    \/ \E c \in Digits : EndsWith(s, <<c, ".">>)

C25_NormalFixedPoint ==
    pc \in {"reparsed", "compared"} =>
        /\ err2 = NoError
        /\ Len(ver2.version) = (IF Len(ver.version) < 3 THEN 3
                                ELSE Len(ver.version))
        /\ \A i \in 1..Len(ver2.version) :
              ver2.version[i] =
                  IF i <= Len(ver.version) THEN ver.version[i] ELSE 0
        /\ Normal(ver2) = normal

\* C26: LessThan is a strict partial order over all Versions, whatever
\* the lengths of their component sequences: it is irreflexive,
\* a.LessThan(b) holds iff b.GreaterThan(a), and a.LessThan(b) together
\* with b.LessThan(c) implies a.LessThan(c).
C26_LessThanStrictOrder ==
    Called("GreaterThan") =>
        /\ \A x \in Names : ~rel["LessThan"][<<x, x>>]
        /\ \A x, y \in Names :
              rel["LessThan"][<<x, y>>] <=> rel["GreaterThan"][<<y, x>>]
        /\ \A x, y, z \in Names :
              (rel["LessThan"][<<x, y>>] /\ rel["LessThan"][<<y, z>>])
                  => rel["LessThan"][<<x, z>>]

\* C26, its case: three Versions of different lengths in a chain, [1,5]
\* older than [2] and [2] older than [5,1].
C26_Witness ==
    /\ pc = "done"
    /\ Comps("a") = <<1, 5>> /\ Comps("b") = <<2>> /\ Comps("c") = <<5, 1>>
    /\ rel["LessThan"][<<"a", "b">>] /\ rel["LessThan"][<<"b", "c">>]
    /\ rel["LessThan"][<<"a", "c">>] /\ rel["GreaterThan"][<<"c", "a">>]
    /\ ~rel["LessThan"][<<"c", "a">>]

====
